---- MODULE Spec2Model ----
(***************************************************************************)
(* The Data Fabric of backend/src/side/intelligence: the Scrubbing Gate    *)
(* (scrubber.py, SovereignScrubber) and the Graph Kernel (graph_kernel.py, *)
(* GraphKernel) with its SQLite store.                                     *)
(*                                                                         *)
(* Text is modelled as TLA+ strings, character by character; a character   *)
(* is a string of length one.  The five detectors of SovereignScrubber     *)
(* are matched as Python's re matches them (leftmost match, greedy         *)
(* quantifiers, re.IGNORECASE), over the ASCII characters.                 *)
(***************************************************************************)
EXTENDS Integers, Sequences, FiniteSets, TLC

VARIABLES
    objects,    \* GraphKernel.objects: the in-memory index, uid -> GraphObject
    db_objects, \* the objects relation of the SQLite store, uid -> row
    db_links,   \* the links relation of the SQLite store, a set of triples
    now,        \* the wall clock read by datetime.now()
    call,       \* the last call made on the Kernel, with its outcome
    before,     \* the call made before that one
    nops,       \* number of calls made so far
    faults,     \* number of durable writes that have failed so far
    text,       \* scrubber run: the argument of scrub_text
    out,        \* scrubber run: the value scrub_text returned last
    prev,       \* scrubber run: the value scrub_text returned before that
    spc,        \* scrubber run: position of the caller
    threads,    \* concurrent callers: each thread's call and position in it
    audit       \* number of lines appended to the compliance log so far

kvars == <<objects, db_objects, db_links, now, call, before, nops, faults, threads, audit>>
svars == <<text, out, prev, spc>>
vars == <<objects, db_objects, db_links, now, call, before, nops, faults, text, out, prev, spc,
          threads, audit>>

----------------------------------------------------------------------------
(* Characters and character classes                                        *)

Char(s, i) == SubSeq(s, i, i)

Lowercase == "abcdefghijklmnopqrstuvwxyz"
Uppercase == "ABCDEFGHIJKLMNOPQRSTUVWXYZ"

LowerChars == {Char(Lowercase, k) : k \in 1..Len(Lowercase)}
UpperChars == {Char(Uppercase, k) : k \in 1..Len(Uppercase)}
DigitChars == {"0", "1", "2", "3", "4", "5", "6", "7", "8", "9"}
AlnumChars == LowerChars \cup UpperChars \cup DigitChars

\* \b of the ip pattern: the characters \w matches
WordChars == AlnumChars \cup {"_"}
\* \s
SpaceChars == {" ", "\t", "\n", "\r", "\f"}

\* email: [a-zA-Z0-9_.+-]+ @ [a-zA-Z0-9-]+ \. [a-zA-Z0-9-.]+
EmailLocalChars == AlnumChars \cup {"_", ".", "+", "-"}
EmailDomainChars == AlnumChars \cup {"-"}
EmailTailChars == AlnumChars \cup {"-", "."}
\* bearer_token: [A-Za-z0-9\-\._~\+\/]+
BearerChars == AlnumChars \cup {"-", ".", "_", "~", "+", "/"}
\* aws_key: [0-9A-Z] under re.IGNORECASE
AwsChars == AlnumChars
\* generic_secret: ["\'] and [A-Za-z0-9_\-]
QuoteChars == {"\"", "'"}
SecretChars == AlnumChars \cup {"_", "-"}

\* re.IGNORECASE on a literal: both are compared lower-cased
FoldChar(c) ==
    IF c \in UpperChars
    THEN Char(Lowercase, CHOOSE k \in 1..Len(Uppercase) : Char(Uppercase, k) = c)
    ELSE c

\* str.upper() of a detector name
UpChar(c) ==
    IF c \in LowerChars
    THEN Char(Uppercase, CHOOSE k \in 1..Len(Lowercase) : Char(Lowercase, k) = c)
    ELSE c

RECURSIVE Upper(_)
Upper(s) == IF s = "" THEN "" ELSE UpChar(Char(s, 1)) \o Upper(Tail(s))

\* the literal lit (given in lower case) stands at position i of s
LitAt(s, i, lit) ==
    /\ i + Len(lit) - 1 <= Len(s)
    /\ \A k \in 1..Len(lit) : FoldChar(Char(s, i + k - 1)) = Char(lit, k)

\* a greedy run C* from position i: the first position not in the run
RECURSIVE RunEnd(_, _, _)
RunEnd(s, i, C) ==
    IF i > Len(s) \/ Char(s, i) \notin C THEN i ELSE RunEnd(s, i + 1, C)

Min(a, b) == IF a <= b THEN a ELSE b

----------------------------------------------------------------------------
(* The detectors, SovereignScrubber.PATTERNS.  MatchX(s, i) is the         *)
(* position just after the match of pattern X that starts at position i,   *)
(* or 0 when the pattern does not match there.                             *)

\* PATTERNS is a dict: its iteration order is the order of definition
PatternNames == <<"email", "ip", "bearer_token", "aws_key", "generic_secret">>

IpOctetMax == 3
AwsMin == 12
AwsMax == 20
SecretMin == 12

MatchEmail(s, i) ==
    LET j == RunEnd(s, i, EmailLocalChars)
        k == RunEnd(s, j + 1, EmailDomainChars)
        m == RunEnd(s, k + 1, EmailTailChars)
    IN  IF /\ j > i
           /\ j <= Len(s) /\ Char(s, j) = "@"
           /\ k > j + 1
           /\ k <= Len(s) /\ Char(s, k) = "."
           /\ m > k + 1
        THEN m ELSE 0

\* \d{1,3} followed by a non-digit: 0 when the run of digits is empty or longer
IpOctet(s, p) ==
    LET e == RunEnd(s, p, DigitChars)
    IN  IF e > p /\ e - p <= IpOctetMax THEN e ELSE 0

IpDot(s, p) == p > 0 /\ p <= Len(s) /\ Char(s, p) = "."

MatchIp(s, i) ==
    LET a == IpOctet(s, i)
        b == IpOctet(s, a + 1)
        c == IpOctet(s, b + 1)
        d == IpOctet(s, c + 1)
    IN  IF /\ (i = 1 \/ Char(s, i - 1) \notin WordChars)
           /\ IpDot(s, a)
           /\ IpDot(s, b)
           /\ IpDot(s, c)
           /\ d > 0
           /\ (d > Len(s) \/ Char(s, d) \notin WordChars)
        THEN d ELSE 0

MatchBearer(s, i) ==
    LET w == RunEnd(s, i + 6, SpaceChars)
        t == RunEnd(s, w, BearerChars)
    IN  IF LitAt(s, i, "bearer") /\ w > i + 6 /\ t > w
        THEN RunEnd(s, t, {"="}) ELSE 0

MatchAws(s, i) ==
    LET r == RunEnd(s, i + 4, AwsChars)
        n == r - (i + 4)
    IN  IF LitAt(s, i, "akia") /\ n >= AwsMin
        THEN i + 4 + Min(n, AwsMax) ELSE 0

\* (api_key|secret|password|token|auth_token): the first alternative that matches
SecretWords == <<"api_key", "secret", "password", "token", "auth_token">>

OptQuote(s, p) == IF p <= Len(s) /\ Char(s, p) \in QuoteChars THEN p + 1 ELSE p

MatchGeneric(s, i) ==
    LET hits == {k \in 1..Len(SecretWords) : LitAt(s, i, SecretWords[k])}
        first == CHOOSE k \in hits : \A h \in hits : k <= h
        p == i + Len(SecretWords[first])
        w == RunEnd(s, OptQuote(s, p), SpaceChars)
        q == OptQuote(s, RunEnd(s, w + 1, SpaceChars))
        v == RunEnd(s, q, SecretChars)
    IN  IF /\ hits # {}
           /\ w <= Len(s) /\ Char(s, w) \in {":", "="}
           /\ v - q >= SecretMin
        THEN v ELSE 0

Match(name, s, i) ==
    CASE name = "email" -> MatchEmail(s, i)
      [] name = "ip" -> MatchIp(s, i)
      [] name = "bearer_token" -> MatchBearer(s, i)
      [] name = "aws_key" -> MatchAws(s, i)
      [] name = "generic_secret" -> MatchGeneric(s, i)

\* f"[REDACTED_{name.upper()}]"
Placeholder(name) == "[REDACTED_" \o Upper(name) \o "]"

\* pattern.sub(placeholder, s): the non-overlapping matches, leftmost first
RECURSIVE SubFrom(_, _, _)
SubFrom(name, s, i) ==
    IF i > Len(s) THEN ""
    ELSE LET e == Match(name, s, i)
         IN  IF e > 0
             THEN Placeholder(name) \o SubFrom(name, s, e)
             ELSE Char(s, i) \o SubFrom(name, s, i + 1)

Sub(name, s) == SubFrom(name, s, 1)

\* len(pattern.findall(s))
RECURSIVE CountFrom(_, _, _)
CountFrom(name, s, i) ==
    IF i > Len(s) THEN 0
    ELSE LET e == Match(name, s, i)
         IN  IF e > 0 THEN 1 + CountFrom(name, s, e) ELSE CountFrom(name, s, i + 1)

FindCount(name, s) == CountFrom(name, s, 1)

\* pattern.search(s) is not None
Found(name, s) == \E i \in 1..Len(s) : Match(name, s, i) > 0

\* the loop of scrub_text over the detectors n..5, on the text scrubbed so far
RECURSIVE ScrubFrom(_, _)
ScrubFrom(n, scrubbed) ==
    IF n > Len(PatternNames) THEN scrubbed
    ELSE ScrubFrom(n + 1,
                   IF FindCount(PatternNames[n], scrubbed) > 0
                   THEN Sub(PatternNames[n], scrubbed)
                   ELSE scrubbed)

scrub_text(t) == IF t = "" THEN "" ELSE ScrubFrom(1, t)

\* the calls of _log_redaction in that loop: one for each detector that finds
\* a match in the text scrubbed so far
RECURSIVE RedactionsFrom(_, _)
RedactionsFrom(n, scrubbed) ==
    IF n > Len(PatternNames) THEN 0
    ELSE IF FindCount(PatternNames[n], scrubbed) > 0
         THEN 1 + RedactionsFrom(n + 1, Sub(PatternNames[n], scrubbed))
         ELSE RedactionsFrom(n + 1, scrubbed)

Redactions(t) == IF t = "" THEN 0 ELSE RedactionsFrom(1, t)

\* _log_redaction whose failed append is not caught
log_redaction_uncaught(log, appendOk) ==
    [lines |-> IF appendOk THEN log.lines + 1 ELSE log.lines,
     ok |-> log.ok /\ appendOk]

\* _log_redaction: a line is appended to the compliance log; a failed append
\* is caught and reported to the logger only
log_redaction(log, appendOk) ==
    [lines |-> IF appendOk THEN log.lines + 1 ELSE log.lines, ok |-> log.ok]

\* the n calls of _log_redaction that a scrub makes
RECURSIVE LogRedactions(_, _, _)
LogRedactions(n, log, appendOk) ==
    IF n = 0 THEN log
    ELSE LogRedactions(n - 1, log_redaction(log, appendOk), appendOk)

----------------------------------------------------------------------------
(* The scrubber run: a caller scrubs a text, then scrubs the result again. *)

MaxChunks == 2

Chunks ==
    { "a@b.co", "1.2.3.4", "AKIA0123456789ABCDEF", "Bearer ", "password=",
      "hunter2hunter2", "x", " ", "token: '", "9" }

RECURSIVE Texts(_)
Texts(n) ==
    IF n = 0 THEN {""}
    ELSE LET shorter == Texts(n - 1)
         IN  shorter \cup {t \o c : t \in shorter, c \in Chunks}

NoCall ==
    [op |-> "init", args |-> <<>>, outcome |-> "returned", ret |-> "",
     failed |-> FALSE]

MaxThreads == 2

Threads == 1..MaxThreads

NoThreadCall == [op |-> "none", args |-> <<>>]

\* no thread has called the Kernel yet
NoThreads ==
    [t \in Threads |-> [pc |-> "idle", call |-> NoThreadCall, ret |-> <<>>, calls |-> 0]]

\* the Kernel as constructed over an empty store, idle during a scrubber run
KernelIdle ==
    /\ objects = <<>>
    /\ db_objects = <<>>
    /\ db_links = {}
    /\ now = 0
    /\ call = NoCall
    /\ before = NoCall
    /\ nops = 0
    /\ faults = 0
    /\ threads = NoThreads
    /\ audit = 0

SInit ==
    /\ KernelIdle
    /\ text \in Texts(MaxChunks)
    /\ out = ""
    /\ prev = ""
    /\ spc = "start"

ScrubOnce ==
    /\ spc = "start"
    /\ out' = scrub_text(text)
    /\ prev' = out
    /\ spc' = "once"
    /\ audit' = LogRedactions(Redactions(text), [lines |-> audit, ok |-> TRUE], TRUE).lines
    /\ UNCHANGED <<text, objects, db_objects, db_links, now, call, before, nops, faults,
                   threads>>

ScrubAgain ==
    /\ spc = "once"
    /\ out' = scrub_text(out)
    /\ prev' = out
    /\ spc' = "twice"
    /\ audit' = LogRedactions(Redactions(out), [lines |-> audit, ok |-> TRUE], TRUE).lines
    /\ UNCHANGED <<text, objects, db_objects, db_links, now, call, before, nops, faults,
                   threads>>

SNext == ScrubOnce \/ ScrubAgain

SpecScrub == SInit /\ [][SNext]_vars

----------------------------------------------------------------------------
(* Python values held in a property map, and scrub_object over them.       *)
(* A value is a record [k, v]: k is the Python type, v the payload.        *)

PyStr(s) == [k |-> "str", v |-> s]
PyInt(n) == [k |-> "int", v |-> n]
PyList(items) == [k |-> "list", v |-> items]
PyTuple(items) == [k |-> "tuple", v |-> items]
PyDict(f) == [k |-> "dict", v |-> f]

EmptyDict == PyDict(<<>>)

\* the string leaves of a value
RECURSIVE Leaves(_)
Leaves(data) ==
    CASE data.k = "str" -> {data.v}
      [] data.k \in {"dict", "list", "tuple"} ->
            UNION {Leaves(data.v[x]) : x \in DOMAIN data.v}
      [] OTHER -> {}

(* The callers: the arguments the Kernel is called with.                   *)

Paths == {"m.py"}
Names == {"f"}
Kinds == {"function"}
SymbolProps == {EmptyDict, PyDict([doc |-> PyStr("by a@b.co")])}

IntentIds == {"d1"}
Contents == {"Leaked info: a@b.co and AKIA0123456789ABCDEF."}
IntentProps ==
    { EmptyDict,
      PyDict([focus_symbol |-> PyStr("symbol:m.py:f")]),
      PyDict([focus_symbol |-> PyStr("m.py:f")]),
      PyDict([file_path |-> PyStr("m.py")]) }

FindingTypes == {"lint"}
Severities == {"high"}
Messages == {"unused import"}
FindingProps == {EmptyDict, PyDict([focus_symbol |-> PyStr("f")])}

\* the property maps callers pass to upsert_object directly
PlainProps == PyDict([a |-> PyStr("x")])
MixedProps ==
    PyDict(("k@b.co" :> PyInt(1))
           @@ [b |-> PyTuple(<<PyStr("a@b.co")>>),
               c |-> PyList(<<PyStr("1.2.3.4AKIA0123456789ABCDEF")>>)])
RenameProps == PyDict([name |-> PyStr("g")])
UpsertProps == {PlainProps, MixedProps, RenameProps}

CallerTexts ==
    Paths \cup Names \cup Kinds \cup Contents \cup FindingTypes \cup Severities
    \cup Messages
    \cup UNION {Leaves(p) : p \in SymbolProps \cup IntentProps \cup FindingProps
                                  \cup UpsertProps}

\* the texts of the callers below, scrubbed once: scrub_text is a pure function
\* of its argument, and ScrubText(t) = scrub_text(t) for every t
ScrubCache == {<<t, scrub_text(t)>> : t \in CallerTexts}

ScrubText(t) ==
    IF \E p \in ScrubCache : p[1] = t
    THEN (CHOOSE p \in ScrubCache : p[1] = t)[2]
    ELSE scrub_text(t)

\* the calls of _log_redaction scrub_text makes on the texts of the callers
RedactionCache == {<<t, Redactions(t)>> : t \in CallerTexts}

RedactionsOf(t) ==
    IF \E p \in RedactionCache : p[1] = t
    THEN (CHOOSE p \in RedactionCache : p[1] = t)[2]
    ELSE Redactions(t)

\* the calls of _log_redaction scrub_object makes on a value: those of
\* scrub_text on each string it reaches
RECURSIVE ObjectRedactions(_)
RECURSIVE RedactionsIn(_, _)
ObjectRedactions(data) ==
    CASE data.k = "str" -> RedactionsOf(data.v)
      [] data.k \in {"dict", "list"} -> RedactionsIn(data, DOMAIN data.v)
      [] OTHER -> 0

RedactionsIn(data, keys) ==
    IF keys = {} THEN 0
    ELSE LET key == CHOOSE x \in keys : TRUE
         IN  ObjectRedactions(data.v[key]) + RedactionsIn(data, keys \ {key})

RECURSIVE scrub_object(_)
scrub_object(data) ==
    CASE data.k = "str" -> PyStr(ScrubText(data.v))
      [] data.k = "dict" ->
            PyDict([key \in DOMAIN data.v |-> scrub_object(data.v[key])])
      [] data.k = "list" ->
            PyList([i \in DOMAIN data.v |-> scrub_object(data.v[i])])
      [] OTHER -> data

validate_ingestion(uid, obj_type, properties) == scrub_object(properties)

----------------------------------------------------------------------------
(* The gate run: a caller hands one value to a method of the Scrubbing     *)
(* Gate.  text is the value, out what the method returned, spc the method  *)
(* that returned (or "raised").  The append to the compliance log may fail. *)

MaxNest == 2

\* None
PyNone == [k |-> "none", v |-> ""]

GateLeaves == {PyStr(""), PyStr("x"), PyStr("a@b.co"), PyInt(1), PyNone}

\* the values nested n deep: maps, lists and tuples over the leaves
RECURSIVE GateValues(_)
GateValues(n) ==
    IF n = 0 THEN GateLeaves
    ELSE LET inner == GateValues(n - 1)
         IN  GateLeaves \cup {EmptyDict, PyList(<<>>), PyTuple(<<>>)}
             \cup {PyDict([a |-> v]) : v \in inner}
             \cup {PyList(<<v>>) : v \in inner}
             \cup {PyTuple(<<v>>) : v \in inner}
             \cup {PyList(<<v, w>>) : v, w \in GateLeaves}
             \cup {PyTuple(<<v, w>>) : v, w \in GateLeaves}

\* scrub_text on a Python value: "if not text" holds of None and of ""
scrub_text_value(data) ==
    IF data.k = "none" \/ data.v = "" THEN PyStr("") ELSE PyStr(ScrubText(data.v))

GInit ==
    /\ KernelIdle
    /\ text \in GateValues(MaxNest)
    /\ out = PyNone
    /\ prev = ""
    /\ spc = "start"

\* the method op returns ret after n calls of _log_redaction
GateReturn(op, ret, n) ==
    /\ \E appendOk \in BOOLEAN :
          \E log \in {LogRedactions(n, [lines |-> audit, ok |-> TRUE], appendOk)} :
              /\ spc' = IF log.ok THEN op ELSE "raised"
              /\ out' = IF log.ok THEN ret ELSE PyNone
              /\ audit' = log.lines
    /\ UNCHANGED <<text, prev, objects, db_objects, db_links, now, call, before, nops,
                   faults, threads>>

GateScrubText ==
    /\ spc = "start"
    /\ text.k \in {"str", "none"}
    /\ GateReturn("scrub_text", scrub_text_value(text),
                  IF text.k = "str" THEN RedactionsOf(text.v) ELSE 0)

GateScrubObject ==
    /\ spc = "start"
    /\ GateReturn("scrub_object", scrub_object(text), ObjectRedactions(text))

GateValidateIngestion ==
    /\ spc = "start"
    /\ text.k = "dict"
    /\ GateReturn("validate_ingestion", validate_ingestion("uid", "type", text),
                  ObjectRedactions(text))

GNext == GateScrubText \/ GateScrubObject \/ GateValidateIngestion

SpecGate == GInit /\ [][GNext]_vars

\* an update in which the keys of a win
DictUpdateOldWins(a, b) == PyDict(a.v @@ b.v)

\* dict.update and {**a, **b}: the keys of b win
DictUpdate(a, b) == PyDict(b.v @@ a.v)

\* json.dumps: the JSON document of a value (a tuple is written as an array)
RECURSIVE json_dumps(_)
json_dumps(data) ==
    CASE data.k = "str" -> [k |-> "string", v |-> data.v]
      [] data.k = "int" -> [k |-> "number", v |-> data.v]
      [] data.k = "dict" ->
            [k |-> "object", v |-> [key \in DOMAIN data.v |-> json_dumps(data.v[key])]]
      [] data.k \in {"list", "tuple"} ->
            [k |-> "array", v |-> [i \in DOMAIN data.v |-> json_dumps(data.v[i])]]

\* json.loads: an array is read as a list
RECURSIVE json_loads(_)
json_loads(doc) ==
    CASE doc.k = "string" -> PyStr(doc.v)
      [] doc.k = "number" -> PyInt(doc.v)
      [] doc.k = "object" ->
            PyDict([key \in DOMAIN doc.v |-> json_loads(doc.v[key])])
      [] doc.k = "array" ->
            PyList([i \in DOMAIN doc.v |-> json_loads(doc.v[i])])

----------------------------------------------------------------------------
(* GraphObject and the Kernel's operations.  An operation is computed on a *)
(* record K of the Kernel's state: the index, the two relations of the     *)
(* store, ok (no exception has been raised so far in this call), failed    *)
(* (a durable write of this call has failed), writes (the durable          *)
(* writes this call has attempted) and lines (the lines this call has      *)
(* appended to the compliance log).  The durable write                     *)
(* numbered failAt raises: its transaction is rolled back, the exception   *)
(* propagates and the rest of the call does not run.                       *)

GraphObject(uid, type, properties, links, created_at) ==
    [uid |-> uid, type |-> type, properties |-> properties, links |-> links,
     created_at |-> created_at]

\* GraphObject.add_link
add_link(obj, neighbor_uid, link_type) ==
    [obj EXCEPT !.links = @ \cup {<<neighbor_uid, link_type>>}]

\* the GraphObject o a caller passed to upsert_object, as the caller holds it
\* when the call has returned: line 68 assigns its properties, and where line
\* 74 ran it is the entry of the index itself
CallerObject(o, index, index_after) ==
    IF o.uid \in DOMAIN index
    THEN [o EXCEPT !.properties = validate_ingestion(o.uid, o.type, o.properties)]
    ELSE index_after[o.uid]

\* an upsert that places obj over the entry that was there
IndexUpsertReplace(index, obj) == (obj.uid :> obj) @@ index

\* upsert_object, the in-memory part: merge into the entry or place obj itself
IndexUpsert(index, obj) ==
    IF obj.uid \in DOMAIN index
    THEN [index EXCEPT ![obj.uid] =
            [@ EXCEPT !.properties = DictUpdate(@, obj.properties),
                      !.links = @ \cup obj.links]]
    ELSE (obj.uid :> obj) @@ index

\* INSERT OR REPLACE INTO objects (uid, type, data, created_at)
StoreObject(rows, obj) ==
    (obj.uid :> [type |-> obj.type, data |-> json_dumps(obj.properties),
                 created_at |-> obj.created_at]) @@ rows

\* INSERT OR IGNORE INTO links (source, target, type)
StoreLink(edges, source, target, type) == edges \cup {<<source, target, type>>}

StoreLinks(edges, obj) == edges \cup {<<obj.uid, l[1], l[2]>> : l \in obj.links}

\* upsert_object whose failed transaction raises nothing
UpsertSwallowing(K, obj, failAt) ==
    LET mem == [K EXCEPT !.objects = IndexUpsert(K.objects, obj),
                         !.writes = K.writes + 1]
    IN  IF mem.writes = failAt
        THEN [mem EXCEPT !.failed = TRUE]
        ELSE [mem EXCEPT !.db_objects = StoreObject(K.db_objects, obj),
                         !.db_links = StoreLinks(K.db_links, obj)]

\* upsert_object after the gate: the index, then the durable transaction
Upsert(K, obj, failAt) ==
    LET mem == [K EXCEPT !.objects = IndexUpsert(K.objects, obj),
                         !.writes = K.writes + 1]
    IN  IF mem.writes = failAt
        THEN [mem EXCEPT !.ok = FALSE, !.failed = TRUE]
        ELSE [mem EXCEPT !.db_objects = StoreObject(K.db_objects, obj),
                         !.db_links = StoreLinks(K.db_links, obj)]

\* upsert_object without line 68: obj.properties is stored as the caller gave it
UpsertUngated(K, o, failAt) ==
    IF ~K.ok THEN K ELSE Upsert(K, o, failAt)

upsert_object(K, o, failAt) ==
    IF ~K.ok THEN K
    ELSE Upsert([K EXCEPT !.lines =
                    LogRedactions(ObjectRedactions(o.properties),
                                  [lines |-> @, ok |-> TRUE], TRUE).lines],
                [o EXCEPT !.properties =
                        validate_ingestion(o.uid, o.type, o.properties)],
                failAt)

\* a link that adds the inverse whatever bidirectional is
IndexLinkBoth(index, source_uid, target_uid, link_type, bidirectional) ==
    [[index EXCEPT ![source_uid] = add_link(@, target_uid, link_type)]
        EXCEPT ![target_uid] = add_link(@, source_uid, "inverse_" \o link_type)]

\* link, the in-memory part
IndexLink(index, source_uid, target_uid, link_type, bidirectional) ==
    LET fwd == [index EXCEPT ![source_uid] = add_link(@, target_uid, link_type)]
    IN  IF bidirectional
        THEN [fwd EXCEPT ![target_uid] =
                add_link(@, source_uid, "inverse_" \o link_type)]
        ELSE fwd

\* a durable part that writes the forward edge only
StoreEdgesForwardOnly(edges, source_uid, target_uid, link_type, bidirectional) ==
    StoreLink(edges, source_uid, target_uid, link_type)

\* link, the durable part
StoreEdges(edges, source_uid, target_uid, link_type, bidirectional) ==
    LET fwd == StoreLink(edges, source_uid, target_uid, link_type)
    IN  IF bidirectional
        THEN StoreLink(fwd, target_uid, source_uid, "inverse_" \o link_type)
        ELSE fwd

\* the guard of link with the test of the target left out
LinkGuardSourceOnly(index, source_uid, target_uid) == source_uid \in DOMAIN index

LinkGuard(index, source_uid, target_uid) ==
    source_uid \in DOMAIN index /\ target_uid \in DOMAIN index

link(K, source_uid, target_uid, link_type, bidirectional, failAt) ==
    IF ~K.ok THEN K
    ELSE IF LinkGuard(K.objects, source_uid, target_uid)
    THEN LET mem == [K EXCEPT
                        !.objects = IndexLink(K.objects, source_uid, target_uid,
                                              link_type, bidirectional),
                        !.writes = K.writes + 1]
         IN  IF mem.writes = failAt
             THEN [mem EXCEPT !.ok = FALSE, !.failed = TRUE]
             ELSE [mem EXCEPT !.db_links =
                        StoreEdges(K.db_links, source_uid, target_uid,
                                   link_type, bidirectional)]
    ELSE K      \* logger.warning only

ModuleUid(path) == "module:" \o path

\* a module object created with no property at all
ModulePropertiesEmpty(path) == EmptyDict

ModuleProperties(path) == PyDict([name |-> PyStr(path)])

\* the module object that the ingest_* helpers create when it is absent
EnsureModule(K, path, failAt) ==
    IF K.ok /\ ModuleUid(path) \notin DOMAIN K.objects
    THEN upsert_object(K, GraphObject(ModuleUid(path), "module",
                                      ModuleProperties(path), {}, now),
                       failAt)
    ELSE K

\* a symbol uid that carries the clock, as the uid of a finding does
SymbolUidStamped(rel_path, name) ==
    "symbol:" \o rel_path \o ":" \o name \o ":" \o ToString(now)

SymbolUid(rel_path, name) == "symbol:" \o rel_path \o ":" \o name

\* {"name": ..., "file_path": ..., "symbol_type": ..., **properties}
SymbolProperties(rel_path, name, symbol_type, properties) ==
    DictUpdate(PyDict([name |-> PyStr(name), file_path |-> PyStr(rel_path),
                       symbol_type |-> PyStr(symbol_type)]),
               properties)

ingest_symbol(K, rel_path, name, symbol_type, properties, failAt) ==
    link(EnsureModule(
             upsert_object(K, GraphObject(SymbolUid(rel_path, name), "symbol",
                               SymbolProperties(rel_path, name, symbol_type,
                                                properties),
                               {}, now),
                           failAt),
             rel_path, failAt),
         ModuleUid(rel_path), SymbolUid(rel_path, name), "defines", TRUE, failAt)

IntentUid(intent_id) == "intent:" \o intent_id

\* {"content": content, **properties}
IntentProperties(content, properties) ==
    DictUpdate(PyDict([content |-> PyStr(content)]), properties)

\* the focus link of ingest_intent made with bidirectional=False
IntentFocusOneWay(K, uid, properties, failAt) ==
    IF K.ok /\ "focus_symbol" \in DOMAIN properties.v
            /\ properties.v["focus_symbol"].v \in DOMAIN K.objects
    THEN link(K, uid, properties.v["focus_symbol"].v, "clarifies", FALSE, failAt)
    ELSE K

\* ingest_intent: if "focus_symbol" in properties, and the kernel has it
IntentFocus(K, uid, properties, failAt) ==
    IF K.ok /\ "focus_symbol" \in DOMAIN properties.v
            /\ properties.v["focus_symbol"].v \in DOMAIN K.objects
    THEN link(K, uid, properties.v["focus_symbol"].v, "clarifies", TRUE, failAt)
    ELSE K

\* ingest_intent: if "file_path" in properties
IntentFile(K, uid, properties, failAt) ==
    IF "file_path" \in DOMAIN properties.v
    THEN link(EnsureModule(K, properties.v["file_path"].v, failAt),
              uid, ModuleUid(properties.v["file_path"].v), "described_in",
              TRUE, failAt)
    ELSE K

ingest_intent(K, intent_id, content, properties, failAt) ==
    IntentFile(
        IntentFocus(
            upsert_object(K, GraphObject(IntentUid(intent_id), "intent",
                              IntentProperties(content, properties), {}, now),
                          failAt),
            IntentUid(intent_id), properties, failAt),
        IntentUid(intent_id), properties, failAt)

\* a finding uid without the clock, built as the uid of a symbol is
FindingUidUnstamped(rel_path, finding_type) ==
    "finding:" \o rel_path \o ":" \o finding_type

\* datetime.now().timestamp() inside the uid of a finding
FindingUid(rel_path, finding_type) ==
    "finding:" \o rel_path \o ":" \o finding_type \o ":" \o ToString(now)

\* {"finding_type": ..., "severity": ..., "message": ..., "file_path": ..., **properties}
FindingProperties(rel_path, finding_type, severity, message, properties) ==
    DictUpdate(PyDict([finding_type |-> PyStr(finding_type),
                       severity |-> PyStr(severity),
                       message |-> PyStr(message),
                       file_path |-> PyStr(rel_path)]),
               properties)

\* ingest_finding: if "focus_symbol" in properties, and the kernel has it
FindingFocus(K, uid, rel_path, properties, failAt) ==
    IF K.ok /\ "focus_symbol" \in DOMAIN properties.v
            /\ SymbolUid(rel_path, properties.v["focus_symbol"].v)
                   \in DOMAIN K.objects
    THEN link(K, uid, SymbolUid(rel_path, properties.v["focus_symbol"].v),
              "targets", TRUE, failAt)
    ELSE K

ingest_finding(K, rel_path, finding_type, severity, message, properties, failAt) ==
    FindingFocus(
        link(EnsureModule(
                 upsert_object(K, GraphObject(FindingUid(rel_path, finding_type),
                                   "finding",
                                   FindingProperties(rel_path, finding_type,
                                                     severity, message, properties),
                                   {}, now),
                               failAt),
                 rel_path, failAt),
             FindingUid(rel_path, finding_type), ModuleUid(rel_path), "violates",
             TRUE, failAt),
        FindingUid(rel_path, finding_type), rel_path, properties, failAt)

\* _load on the empty index of a Kernel just constructed
Load(rows, edges) ==
    [uid \in DOMAIN rows |->
        GraphObject(uid, rows[uid].type, json_loads(rows[uid].data),
                    {<<e[2], e[3]>> : e \in {x \in edges : x[1] = uid}},
                    rows[uid].created_at)]

\* a data text that is no JSON document
Unparsable == [k |-> "invalid", v |-> "{"]

\* json.loads returns on the text, it does not raise json.JSONDecodeError
Parsable(doc) == doc.k # "invalid"

\* GraphKernel(storage_path): _init_db, then _load.  json.loads of line 203
\* is not guarded: on an unparsable row __init__ raises and the caller gets
\* no Kernel.
Construct(K) ==
    IF \A uid \in DOMAIN K.db_objects : Parsable(K.db_objects[uid].data)
    THEN [K EXCEPT !.objects = Load(K.db_objects, K.db_links)]
    ELSE [K EXCEPT !.objects = <<>>, !.ok = FALSE]

\* uid in cluster, for the dict cluster kept as the list of its keys in order
InCluster(uid, cluster) == \E i \in DOMAIN cluster : cluster[i] = uid

\* the for loop with a newly found neighbour placed before the others
RECURSIVE VisitLinksNewestFirst(_, _, _, _, _)
VisitLinksNewestFirst(index, links, current_depth, queue, cluster) ==
    IF links = {} THEN {<<queue, cluster>>}
    ELSE UNION {
        IF ~InCluster(l[1], cluster) /\ l[1] \in DOMAIN index
        THEN VisitLinksNewestFirst(index, links \ {l}, current_depth,
                                   Append(queue, <<l[1], current_depth + 1>>),
                                   <<l[1]>> \o cluster)
        ELSE VisitLinksNewestFirst(index, links \ {l}, current_depth, queue,
                                   cluster)
        : l \in links }

\* the for loop over the links of the current object, a set: every order of
\* iteration.  The result is the set of the possible (queue, cluster) pairs.
RECURSIVE VisitLinks(_, _, _, _, _)
VisitLinks(index, links, current_depth, queue, cluster) ==
    IF links = {} THEN {<<queue, cluster>>}
    ELSE UNION {
        IF ~InCluster(l[1], cluster) /\ l[1] \in DOMAIN index
        THEN VisitLinks(index, links \ {l}, current_depth,
                        Append(queue, <<l[1], current_depth + 1>>),
                        Append(cluster, l[1]))
        ELSE VisitLinks(index, links \ {l}, current_depth, queue, cluster)
        : l \in links }

\* the while loop that stops one link short: current_depth + 1 >= depth
RECURSIVE TraverseShallow(_, _, _, _)
TraverseShallow(index, depth, queue, cluster) ==
    IF queue = <<>> THEN {cluster}
    ELSE LET current == Head(queue)
         IN  IF current[2] + 1 >= depth
             THEN TraverseShallow(index, depth, Tail(queue), cluster)
             ELSE UNION {TraverseShallow(index, depth, qc[1], qc[2]) :
                         qc \in VisitLinks(index, index[current[1]].links,
                                           current[2], Tail(queue), cluster)}

\* the while loop with the test current_depth > depth in place of >=
RECURSIVE TraverseDeep(_, _, _, _)
TraverseDeep(index, depth, queue, cluster) ==
    IF queue = <<>> THEN {cluster}
    ELSE LET current == Head(queue)
         IN  IF current[2] > depth
             THEN TraverseDeep(index, depth, Tail(queue), cluster)
             ELSE UNION {TraverseDeep(index, depth, qc[1], qc[2]) :
                         qc \in VisitLinks(index, index[current[1]].links,
                                           current[2], Tail(queue), cluster)}

\* the while loop of get_neighborhood: the set of the possible final clusters
RECURSIVE Traverse(_, _, _, _)
Traverse(index, depth, queue, cluster) ==
    IF queue = <<>> THEN {cluster}
    ELSE LET current == Head(queue)
         IN  IF current[2] >= depth
             THEN Traverse(index, depth, Tail(queue), cluster)
             ELSE UNION {Traverse(index, depth, qc[1], qc[2]) :
                         qc \in VisitLinks(index, index[current[1]].links,
                                           current[2], Tail(queue), cluster)}

\* the lists get_neighborhood may return, each as the list of its objects' uids
get_neighborhood(index, uid, depth) ==
    IF uid \notin DOMAIN index THEN {<<>>}
    ELSE Traverse(index, depth, <<<<uid, 0>>>>, <<uid>>)

----------------------------------------------------------------------------
(* The calls made on the Kernel.                                           *)

MaxOps == 2
MaxFaults == 1
MaxClock == 1
MaxDepth == 2

\* the objects callers pass to upsert_object directly
UpsertInputs ==
    { GraphObject("note:1", "note", PlainProps, {}, now),
      GraphObject("note:1", "memo", MixedProps, {<<"symbol:m.py:f", "about">>}, now),
      GraphObject("symbol:m.py:f", "symbol", RenameProps,
                  {<<"symbol:m.py:f", "calls">>, <<"symbol:m.py:f", "reads">>},
                  now) }

LinkSources == {"symbol:m.py:f", "note:1"}
LinkTargets == {"symbol:m.py:f", "module:m.py", "intent:d1"}
LinkTypes == {"uses"}

FailPoints == 0..4

Kernel == [objects |-> objects, db_objects |-> db_objects, db_links |-> db_links,
           ok |-> TRUE, failed |-> FALSE, writes |-> 0, lines |-> 0]

\* a call ends: the Kernel's state after it, and what the caller got
Finish(K, op, args, ret) ==
    /\ objects' = K.objects
    /\ db_objects' = K.db_objects
    /\ db_links' = K.db_links
    /\ call' = [op |-> op, args |-> args,
                outcome |-> IF K.ok THEN "returned" ELSE "raised",
                ret |-> IF K.ok THEN ret ELSE "",
                failed |-> K.failed]
    /\ before' = call
    /\ faults' = IF K.failed THEN faults + 1 ELSE faults
    /\ nops' = nops + 1
    /\ audit' = audit + K.lines
    /\ UNCHANGED <<now, svars, threads>>

\* the caller holds a Kernel: the last construction did not raise
Alive == ~(call.op = "restart" /\ call.outcome = "raised")

\* the call may be made, with a durable write that fails or with none
MayCall(failAt) ==
    /\ nops < MaxOps
    /\ Alive
    /\ failAt = 0 \/ faults < MaxFaults

\* the fault chosen for the call does happen in it
Faulted(K, failAt) == failAt = 0 \/ K.failed

UpsertObject ==
    \E o \in UpsertInputs, failAt \in FailPoints :
        /\ MayCall(failAt)
        /\ \E K \in {upsert_object(Kernel, o, failAt)} :
              Faulted(K, failAt) /\ Finish(K, "upsert_object", <<o>>, "")

Link ==
    \E s \in LinkSources, t \in LinkTargets, ty \in LinkTypes,
       bidirectional \in BOOLEAN, failAt \in FailPoints :
        /\ MayCall(failAt)
        /\ \E K \in {link(Kernel, s, t, ty, bidirectional, failAt)} :
              /\ Faulted(K, failAt)
              /\ Finish(K, "link", <<s, t, ty, bidirectional>>, "")

IngestSymbol ==
    \E p \in Paths, n \in Names, kind \in Kinds, properties \in SymbolProps,
       failAt \in FailPoints :
        /\ MayCall(failAt)
        /\ \E K \in {ingest_symbol(Kernel, p, n, kind, properties, failAt)} :
              /\ Faulted(K, failAt)
              /\ Finish(K, "ingest_symbol", <<p, n, kind, properties>>,
                        SymbolUid(p, n))

IngestIntent ==
    \E id \in IntentIds, content \in Contents, properties \in IntentProps,
       failAt \in FailPoints :
        /\ MayCall(failAt)
        /\ \E K \in {ingest_intent(Kernel, id, content, properties, failAt)} :
              /\ Faulted(K, failAt)
              /\ Finish(K, "ingest_intent", <<id, content, properties>>,
                        IntentUid(id))

IngestFinding ==
    \E p \in Paths, ft \in FindingTypes, sev \in Severities, msg \in Messages,
       properties \in FindingProps, failAt \in FailPoints :
        /\ MayCall(failAt)
        /\ \E K \in {ingest_finding(Kernel, p, ft, sev, msg, properties, failAt)} :
              /\ Faulted(K, failAt)
              /\ Finish(K, "ingest_finding", <<p, ft, sev, msg, properties>>,
                        FindingUid(p, ft))

GetNeighborhood ==
    /\ nops < MaxOps
    /\ Alive
    /\ \E uid \in DOMAIN objects \cup {"symbol:m.py:f"}, depth \in 0..MaxDepth :
          \E r \in get_neighborhood(objects, uid, depth) :
              Finish(Kernel, "get_neighborhood", <<uid, depth>>, r)

\* the process ends and a new Kernel is constructed over the same store
Restart ==
    /\ nops < MaxOps
    /\ Finish(Construct(Kernel), "restart", <<>>, "")

Tick ==
    /\ now < MaxClock
    /\ now' = now + 1
    /\ UNCHANGED <<objects, db_objects, db_links, call, before, nops, faults, svars, threads,
                   audit>>

ScrubIdle == text = "" /\ out = "" /\ prev = "" /\ spc = "idle"

Init == KernelIdle /\ ScrubIdle

Next ==
    \/ UpsertObject
    \/ Link
    \/ IngestSymbol
    \/ IngestIntent
    \/ IngestFinding
    \/ GetNeighborhood
    \/ Restart
    \/ Tick

Spec == Init /\ [][Next]_vars

\* the store is damaged outside the Kernel: the data column of a row (TEXT,
\* with no constraint) comes to hold a text that is no JSON document
Corrupt ==
    \E uid \in DOMAIN db_objects :
        /\ Parsable(db_objects[uid].data)
        /\ db_objects' = [db_objects EXCEPT ![uid].data = Unparsable]
        /\ UNCHANGED <<objects, db_links, now, call, before, nops, faults, svars, threads,
                       audit>>

LNext == Next \/ Corrupt

\* link called with bidirectional left at its default, True
LinkBidirectional ==
    \E s \in LinkSources, t \in LinkTargets, ty \in LinkTypes, failAt \in FailPoints :
        /\ MayCall(failAt)
        /\ \E K \in {link(Kernel, s, t, ty, TRUE, failAt)} :
              /\ Faulted(K, failAt)
              /\ Finish(K, "link", <<s, t, ty, TRUE>>, "")

INext ==
    \/ IngestSymbol
    \/ IngestIntent
    \/ IngestFinding
    \/ LinkBidirectional
    \/ Tick

\* a Kernel whose callers use the ingest_* helpers and the default link only
SpecIngest == Init /\ [][INext]_vars

\* the Kernel over a store that may be damaged
SpecLoad == Init /\ [][LNext]_vars

----------------------------------------------------------------------------
(* Threads of one process calling one Kernel.  GraphKernel holds no lock:  *)
(* a thread may be suspended between the statements of a method, so each   *)
(* method is a sequence of steps.  The update of the index by              *)
(* upsert_object, each add_link of link, each sqlite3 transaction and the  *)
(* whole of get_neighborhood are taken as one step each.                   *)

MaxThreadCalls == 2

\* the calls the threads make
ThreadCalls ==
    { [op |-> "upsert_object",
       args |-> <<GraphObject("note:1", "note", PyDict([a |-> PyStr("x")]), {}, now)>>],
      [op |-> "upsert_object",
       args |-> <<GraphObject("note:1", "note", PyDict([a |-> PyStr("y")]), {}, now)>>],
      [op |-> "upsert_object",
       args |-> <<GraphObject("note:2", "note", PyDict([a |-> PyStr("x")]), {}, now)>>],
      [op |-> "link", args |-> <<"note:1", "note:2", "uses", TRUE>>],
      [op |-> "get_neighborhood", args |-> <<"note:1", 1>>] }

\* thread t enters the call c and reaches pc
Enter(t, c, pc, ret) ==
    threads' = [threads EXCEPT ![t] =
                    [pc |-> pc, call |-> c, ret |-> ret, calls |-> @.calls + 1]]

\* thread t moves on to pc within its call
Goto(t, pc) == threads' = [threads EXCEPT ![t].pc = pc]

MayEnter(t) == threads[t].pc = "idle" /\ threads[t].calls < MaxThreadCalls

\* upsert_object, lines 68-74: the gate and the index
ThreadUpsertIndex(t) ==
    /\ MayEnter(t)
    /\ \E c \in ThreadCalls :
          /\ c.op = "upsert_object"
          /\ \E obj \in {[c.args[1] EXCEPT !.properties =
                            validate_ingestion(c.args[1].uid, c.args[1].type,
                                               c.args[1].properties)]} :
                /\ objects' = IndexUpsert(objects, obj)
                /\ Enter(t, [c EXCEPT !.args = <<obj, obj.uid \notin DOMAIN objects>>],
                         "upsert_store", <<>>)
                /\ audit' = LogRedactions(ObjectRedactions(c.args[1].properties),
                                          [lines |-> audit, ok |-> TRUE], TRUE).lines
    /\ UNCHANGED <<db_objects, db_links, now, call, before, nops, faults, svars>>

\* the object obj of thread t inside upsert_object: where line 74 ran, obj is
\* the entry of the index itself, and holds what other threads merged into it
Held(t) ==
    IF threads[t].call.args[2]
    THEN objects[threads[t].call.args[1].uid]
    ELSE threads[t].call.args[1]

\* upsert_object, lines 77-87: the transaction
ThreadUpsertStore(t) ==
    /\ threads[t].pc = "upsert_store"
    /\ db_objects' = StoreObject(db_objects, Held(t))
    /\ db_links' = StoreLinks(db_links, Held(t))
    /\ Goto(t, "idle")
    /\ UNCHANGED <<objects, now, call, before, nops, faults, svars, audit>>

\* link, lines 90-91: the guard and the forward add_link (or the warning)
ThreadLinkForward(t) ==
    /\ MayEnter(t)
    /\ \E c \in ThreadCalls :
          /\ c.op = "link"
          /\ IF LinkGuard(objects, c.args[1], c.args[2])
             THEN /\ objects' = [objects EXCEPT ![c.args[1]] =
                                    add_link(@, c.args[2], c.args[3])]
                  /\ Enter(t, c, IF c.args[4] THEN "link_inverse" ELSE "link_store",
                           <<>>)
             ELSE /\ objects' = objects
                  /\ Enter(t, c, "idle", <<>>)
    /\ UNCHANGED <<db_objects, db_links, now, call, before, nops, faults, svars, audit>>

\* link, lines 92-93: the inverse add_link
ThreadLinkInverse(t) ==
    /\ threads[t].pc = "link_inverse"
    /\ objects' = [objects EXCEPT ![threads[t].call.args[2]] =
                        add_link(@, threads[t].call.args[1],
                                 "inverse_" \o threads[t].call.args[3])]
    /\ Goto(t, "link_store")
    /\ UNCHANGED <<db_objects, db_links, now, call, before, nops, faults, svars, audit>>

\* link, lines 96-102: the transaction
ThreadLinkStore(t) ==
    /\ threads[t].pc = "link_store"
    /\ db_links' = StoreEdges(db_links, threads[t].call.args[1],
                              threads[t].call.args[2], threads[t].call.args[3],
                              threads[t].call.args[4])
    /\ Goto(t, "idle")
    /\ UNCHANGED <<objects, db_objects, now, call, before, nops, faults, svars, audit>>

\* get_neighborhood, lines 106-124
ThreadRead(t) ==
    /\ MayEnter(t)
    /\ \E c \in ThreadCalls :
          /\ c.op = "get_neighborhood"
          /\ \E r \in get_neighborhood(objects, c.args[1], c.args[2]) :
                Enter(t, c, "idle", r)
    /\ UNCHANGED <<objects, db_objects, db_links, now, call, before, nops, faults, svars, audit>>

CNext ==
    \E t \in Threads :
        \/ ThreadUpsertIndex(t)
        \/ ThreadUpsertStore(t)
        \/ ThreadLinkForward(t)
        \/ ThreadLinkInverse(t)
        \/ ThreadLinkStore(t)
        \/ ThreadRead(t)

SpecThreads == Init /\ [][CNext]_vars

----------------------------------------------------------------------------
(* Properties of scrub_text, checked on the scrubber run (SpecScrub).      *)

\* sub occurs in s
Contains(s, sub) ==
    \E i \in 1..(Len(s) - Len(sub) + 1) : SubSeq(s, i, i + Len(sub) - 1) = sub

Detectors == {PatternNames[n] : n \in DOMAIN PatternNames}

\* the substrings of s that detector name matches
RawMatches(name, s) ==
    {SubSeq(s, i, Match(name, s, i) - 1) : i \in {j \in 1..Len(s) : Match(name, s, j) > 0}}

\* C5: scrub_text is idempotent: scrubbing the text it returned returns that
\* text unchanged.
ScrubTextIdempotent == spc = "twice" => out = prev

\* C6: for every detector that matches a substring of the input, the text
\* scrub_text returns holds no occurrence of that substring and holds the
\* placeholder of that detector.
EveryMatchRedacted ==
    spc = "once" =>
        \A name \in Detectors :
            \A m \in RawMatches(name, text) :
                ~Contains(out, m) /\ Contains(out, Placeholder(name))

----------------------------------------------------------------------------
(* Properties of the Kernel, checked on Spec.                              *)

WriteOps == {"upsert_object", "ingest_symbol", "ingest_intent", "ingest_finding"}

\* a call was made in this step
Called == nops' = nops + 1

\* C1: after a successful upsert_object on a uid that was already indexed,
\* the row of the objects relation for that uid holds the merged property map,
\* the map the in-memory index holds for that uid.
UpsertStoresMergedMap ==
    [][(/\ Called
        /\ call'.op = "upsert_object"
        /\ call'.outcome = "returned"
        /\ call'.args[1].uid \in DOMAIN objects)
       => db_objects'[call'.args[1].uid].data
            = json_dumps(objects'[call'.args[1].uid].properties)]_vars

\* C2: when the durable write of upsert_object or of link fails, the
\* in-memory index is what it was before the call.
FailedWriteLeavesIndex ==
    [][(/\ Called
        /\ call'.op \in {"upsert_object", "link"}
        /\ call'.outcome = "raised")
       => objects' = objects]_vars

\* the keys of the dicts of a value
RECURSIVE Keys(_)
Keys(data) ==
    CASE data.k = "dict" ->
            DOMAIN data.v \cup UNION {Keys(data.v[key]) : key \in DOMAIN data.v}
      [] data.k \in {"list", "tuple"} ->
            UNION {Keys(data.v[i]) : i \in DOMAIN data.v}
      [] OTHER -> {}

\* every text a caller hands to the Kernel: values, keys, ids, types
SuppliedTexts ==
    CallerTexts \cup IntentIds \cup LinkSources \cup LinkTargets \cup LinkTypes
    \cup {"note", "memo", "symbol", "about", "calls", "reads"}
    \cup UNION {Keys(p) : p \in SymbolProps \cup IntentProps \cup FindingProps
                                \cup UpsertProps}

\* the substrings of the supplied texts that some detector matches
SensitiveFragments ==
    UNION {RawMatches(name, t) : name \in Detectors, t \in SuppliedTexts}

\* the texts of a JSON document: its strings and the keys of its objects
RECURSIVE DocTexts(_)
DocTexts(doc) ==
    CASE doc.k = "string" -> {doc.v}
      [] doc.k = "object" ->
            DOMAIN doc.v \cup UNION {DocTexts(doc.v[key]) : key \in DOMAIN doc.v}
      [] doc.k = "array" ->
            UNION {DocTexts(doc.v[i]) : i \in DOMAIN doc.v}
      [] OTHER -> {}

\* every text held in the objects and links relations
StoredTexts ==
    DOMAIN db_objects
    \cup {db_objects[uid].type : uid \in DOMAIN db_objects}
    \cup UNION {DocTexts(db_objects[uid].data) : uid \in DOMAIN db_objects}
    \cup UNION {{e[1], e[2], e[3]} : e \in db_links}

\* C3: no text of the store (property value, property key, uid, type, edge
\* source, target or type) holds a substring of a caller's text that a
\* detector matches.
NoSensitiveTextStored ==
    \A stored \in StoredTexts : \A m \in SensitiveFragments : ~Contains(stored, m)

\* the property maps a call submits to upsert_object, by the call's arguments
CallMaps(c) ==
    CASE c.op = "upsert_object" -> {c.args[1].properties}
      [] c.op = "ingest_symbol" ->
            {SymbolProperties(c.args[1], c.args[2], c.args[3], c.args[4]),
             ModuleProperties(c.args[1])}
      [] c.op = "ingest_intent" ->
            {IntentProperties(c.args[2], c.args[3])}
            \cup (IF "file_path" \in DOMAIN c.args[3].v
                  THEN {ModuleProperties(c.args[3].v["file_path"].v)} ELSE {})
      [] c.op = "ingest_finding" ->
            {FindingProperties(c.args[1], c.args[2], c.args[3], c.args[4],
                               c.args[5]),
             ModuleProperties(c.args[1])}
      [] OTHER -> {}

\* what the Scrubbing Gate returns for the maps of a call
GatedMaps(c) == {validate_ingestion("", "", m) : m \in CallMaps(c)}

\* C4: on every write path, each property map the call places in the index
\* (as a new entry, or merged into the entry that was there) and each document
\* it writes to the objects relation is what validate_ingestion returned for a
\* map of that call.
EveryWriteGated ==
    [][(Called /\ call'.op \in WriteOps \cup {"link"}) =>
        /\ \A uid \in DOMAIN objects' :
              \/ uid \in DOMAIN objects
                   /\ objects'[uid].properties = objects[uid].properties
              \/ \E g \in GatedMaps(call') :
                    objects'[uid].properties =
                        IF uid \in DOMAIN objects
                        THEN DictUpdate(objects[uid].properties, g)
                        ELSE g
        /\ \A uid \in DOMAIN db_objects' :
              \/ uid \in DOMAIN db_objects /\ db_objects'[uid] = db_objects[uid]
              \/ \E g \in GatedMaps(call') :
                    db_objects'[uid].data = json_dumps(g)]_vars

\* C4 (witness): ingest_intent has returned and the content held in the index
\* and in the store is not the content the caller gave
GateRewroteContent ==
    /\ call.op = "ingest_intent"
    /\ call.outcome = "returned"
    /\ objects[call.ret].properties.v["content"].v # call.args[2]
    /\ db_objects[call.ret].data.v["content"].v
            = objects[call.ret].properties.v["content"].v
    /\ Contains(db_objects[call.ret].data.v["content"].v, Placeholder("email"))

\* the uids of a list get_neighborhood returned
Uids(r) == {r[i] : i \in DOMAIN r}

\* the uid sets get_neighborhood may return on an index
NeighborhoodSets(index, uid, depth) ==
    {Uids(r) : r \in get_neighborhood(index, uid, depth)}

\* C7: a Kernel constructed from the store returns, for every uid of the live
\* index and every depth, the set of uids the live Kernel returns.
ReloadKeepsNeighborhoods ==
    \A uid \in DOMAIN objects, depth \in 0..MaxDepth :
        NeighborhoodSets(Load(db_objects, db_links), uid, depth)
            = NeighborhoodSets(objects, uid, depth)

\* C8: ingest_symbol called again with the arguments of the call before it,
\* the properties empty, returns the uid symbol:<p>:<n> it returned before,
\* and adds no index entry, no row and no edge: one entry and one row hold uid.
ReingestSymbolAddsNothing ==
    [][(/\ Called
        /\ call.op = "ingest_symbol" /\ call.outcome = "returned"
        /\ call'.op = "ingest_symbol" /\ call'.outcome = "returned"
        /\ call'.args = call.args
        /\ call.args[4] = EmptyDict)
       => /\ call'.ret = call.ret
          /\ call'.ret = "symbol:" \o call.args[1] \o ":" \o call.args[2]
          /\ call'.ret \in DOMAIN objects' /\ call'.ret \in DOMAIN db_objects'
          /\ DOMAIN objects' = DOMAIN objects
          /\ DOMAIN db_objects' = DOMAIN db_objects
          /\ db_links' = db_links
          /\ \A uid \in DOMAIN objects : objects'[uid].links = objects[uid].links]_vars

\* C8 (witness): the same ingest_symbol call, properties empty, has been made
\* twice in a row and has returned twice
SymbolIngestedTwice ==
    /\ call.op = "ingest_symbol" /\ before.op = "ingest_symbol"
    /\ call.outcome = "returned" /\ before.outcome = "returned"
    /\ call.args = before.args
    /\ call.args[4] = EmptyDict
    /\ nops = 2
    /\ call.ret \in DOMAIN objects

\* the uids within k links of seed: a link leads on from an indexed object only
RECURSIVE Ball(_, _, _)
Ball(index, seed, k) ==
    IF k = 0 THEN {seed}
    ELSE LET inner == Ball(index, seed, k - 1)
         IN  inner \cup {l[1] : l \in UNION {index[uid].links :
                                              uid \in inner \cap DOMAIN index}}

\* C9: the list get_neighborhood(uid, k) returned holds no uid twice and no
\* object further than k links from uid.
NeighborhoodWithinDepth ==
    call.op = "get_neighborhood" =>
        /\ \A i, j \in DOMAIN call.ret : call.ret[i] = call.ret[j] => i = j
        /\ Uids(call.ret) \subseteq Ball(objects, call.args[1], call.args[2])

\* C9 (witness): a read two links deep from a seed on a cycle: a neighbour
\* that links back to the seed was returned, and expanded in its turn
NeighborhoodOnCycle ==
    /\ call.op = "get_neighborhood"
    /\ call.args[2] >= 2
    /\ Len(call.ret) >= 2
    /\ call.ret[1] = call.args[1]
    /\ \E l \in objects[call.ret[2]].links : l[1] = call.args[1]

\* C10: link with an endpoint that is not in the index raises nothing, adds
\* no link to any object of the index and writes no row.
LinkUnknownEndpointNoOp ==
    [][(/\ Called
        /\ call'.op = "link"
        /\ (call'.args[1] \notin DOMAIN objects \/ call'.args[2] \notin DOMAIN objects))
       => /\ call'.outcome = "returned"
          /\ objects' = objects
          /\ db_links' = db_links
          /\ db_objects' = db_objects]_vars

\* C10 (witness): link has returned, called with one endpoint that is in the
\* index and one that is not
LinkedToUnknown ==
    /\ call.op = "link"
    /\ call.outcome = "returned"
    /\ (call.args[1] \in DOMAIN objects) # (call.args[2] \in DOMAIN objects)

\* ingest_symbol(p, n, k, {}) has returned and ingest_intent, called next with
\* focus_symbol the uid of that symbol, has returned
IntentAfterSymbol ==
    /\ before.op = "ingest_symbol" /\ before.outcome = "returned"
    /\ before.args[4] = EmptyDict
    /\ call.op = "ingest_intent" /\ call.outcome = "returned"
    /\ "focus_symbol" \in DOMAIN call.args[3].v
    /\ call.args[3].v["focus_symbol"].v = before.ret

\* C11: after ingest_symbol(p, n, k, {}) and then ingest_intent(id, content,
\* {focus_symbol: symbol:<p>:<n>}), ingest_intent has returned intent:<id>, the
\* links of the intent hold (symbol:<p>:<n>, clarifies), and every list
\* get_neighborhood(symbol:<p>:<n>, 1) may return holds the symbol and the intent.
IntentClarifiesSymbol ==
    IntentAfterSymbol =>
        /\ call.ret = "intent:" \o call.args[1]
        /\ before.ret = "symbol:" \o before.args[1] \o ":" \o before.args[2]
        /\ call.ret \in DOMAIN objects
        /\ <<before.ret, "clarifies">> \in objects[call.ret].links
        /\ \A r \in get_neighborhood(objects, before.ret, 1) :
              {before.ret, call.ret} \subseteq Uids(r)

\* C11 (witness): the two calls have been made and the intent is indexed
\* with the content the gate returned
IntentLinkedToSymbol ==
    /\ IntentAfterSymbol
    /\ nops = 2
    /\ objects[call.ret].type = "intent"
    /\ objects[before.ret].type = "symbol"

\* C12: a returned upsert_object on an indexed uid leaves, in the index, the
\* old property map overlaid by the sanitized new one (a key of both takes the
\* new value, a key of the old map only keeps its value) and the union of the
\* old and the supplied links; on a uid that was not indexed it leaves the
\* sanitized map and the supplied links.
UpsertMergesInIndex ==
    [][(Called /\ call'.op = "upsert_object" /\ call'.outcome = "returned") =>
        LET o == call'.args[1]
            new == validate_ingestion(o.uid, o.type, o.properties).v
            got == objects'[o.uid]
        IN  IF o.uid \in DOMAIN objects
            THEN LET old == objects[o.uid]
                 IN  /\ DOMAIN got.properties.v
                            = DOMAIN old.properties.v \cup DOMAIN new
                     /\ \A key \in DOMAIN new : got.properties.v[key] = new[key]
                     /\ \A key \in DOMAIN old.properties.v \ DOMAIN new :
                            got.properties.v[key] = old.properties.v[key]
                     /\ got.links = old.links \cup o.links
            ELSE /\ got.properties.v = new
                 /\ got.links = o.links]_vars

\* C12 (witness): upsert_object has returned on the uid ingest_symbol had
\* indexed, with a key of both maps (name) and keys of the old map only
SymbolRenamedByUpsert ==
    /\ before.op = "ingest_symbol" /\ before.outcome = "returned"
    /\ call.op = "upsert_object" /\ call.outcome = "returned"
    /\ call.args[1].uid = before.ret
    /\ objects[before.ret].properties.v["name"].v = "g"
    /\ "file_path" \in DOMAIN objects[before.ret].properties.v
    /\ <<"symbol:m.py:f", "calls">> \in objects[before.ret].links
    /\ \E l \in objects[before.ret].links : l[2] = "inverse_defines"

\* C13: created_at is immutable: no upsert of an indexed uid, made directly or
\* by ingest_*, changes the created_at of its index entry or of its objects row.
CreatedAtImmutable ==
    [][(Called /\ call'.op \in WriteOps) =>
        /\ \A uid \in DOMAIN objects :
              objects'[uid].created_at = objects[uid].created_at
        /\ \A uid \in DOMAIN db_objects :
              db_objects'[uid].created_at = db_objects[uid].created_at]_vars

IngestOps == {"ingest_symbol", "ingest_intent", "ingest_finding"}

\* C14: a durable write of upsert_object or of link that fails reaches the
\* caller as an exception, and an ingest_* call that returned its uid had no
\* durable write fail: the row of that uid is in the objects relation.
FailedWritePropagates ==
    /\ call.failed => call.outcome = "raised" /\ call.ret = ""
    /\ (call.op \in IngestOps /\ call.outcome = "returned") =>
            /\ ~call.failed
            /\ call.ret \in DOMAIN db_objects
            /\ call.ret \in DOMAIN objects

\* C14 (witness): an ingest_* call has raised at a durable write that came
\* after its first one
IngestRaisedMidway ==
    /\ call.op \in IngestOps
    /\ call.failed
    /\ call.outcome = "raised"
    /\ nops = 1
    /\ DOMAIN db_objects # {}

\* C15: an operation that fails at a durable write leaves nothing of its
\* effect: the index, the objects relation and the links relation are what
\* they were before the call.
FailedCallLeavesNothing ==
    [][(Called /\ call'.outcome = "raised") =>
        /\ objects' = objects
        /\ db_objects' = db_objects
        /\ db_links' = db_links]_vars

\* C19: no operation of the Kernel removes anything: a uid of the index stays
\* in the index and its links only grow (on every step but the construction of
\* a new Kernel), a row of the objects relation stays present and no row of
\* the links relation goes away.
NothingRemoved ==
    [][/\ DOMAIN db_objects \subseteq DOMAIN db_objects'
       /\ db_links \subseteq db_links'
       /\ (Called /\ call'.op # "restart") =>
            /\ DOMAIN objects \subseteq DOMAIN objects'
            /\ \A uid \in DOMAIN objects :
                  objects[uid].links \subseteq objects'[uid].links]_vars

\* C19 (witness): upsert_object, with links of its own, has returned on a uid
\* that held links before, and both are there
UpsertKeptLinks ==
    /\ before.op = "ingest_symbol" /\ before.outcome = "returned"
    /\ call.op = "upsert_object" /\ call.outcome = "returned"
    /\ call.args[1].uid = before.ret
    /\ call.args[1].links # {}
    /\ <<"module:m.py", "inverse_defines">> \in objects[before.ret].links
    /\ call.args[1].links \subseteq objects[before.ret].links
    /\ <<"module:m.py", "symbol:m.py:f", "defines">> \in db_links

\* the links link(source, target, type, bidirectional) adds to the object uid
LinksAdded(uid, source, target, type, bidirectional) ==
    (IF uid = source THEN {<<target, type>>} ELSE {})
    \cup (IF bidirectional /\ uid = target
          THEN {<<source, "inverse_" \o type>>} ELSE {})

\* C20: a returned link(source, target, type, bidirectional) on two indexed
\* uids adds (target, type) to the links of source and, if and only if
\* bidirectional, (source, inverse_type) to the links of target; it writes
\* those edges to the links relation and changes nothing else.
LinkAddsItsEdgesOnly ==
    [][(/\ Called
        /\ call'.op = "link" /\ call'.outcome = "returned"
        /\ call'.args[1] \in DOMAIN objects /\ call'.args[2] \in DOMAIN objects) =>
        LET source == call'.args[1]
            target == call'.args[2]
            type == call'.args[3]
            bidirectional == call'.args[4]
        IN  /\ DOMAIN objects' = DOMAIN objects
            /\ \A uid \in DOMAIN objects :
                  objects'[uid] =
                      [objects[uid] EXCEPT !.links =
                          @ \cup LinksAdded(uid, source, target, type, bidirectional)]
            /\ db_objects' = db_objects
            /\ db_links' = db_links
                    \cup {<<source, target, type>>}
                    \cup (IF bidirectional
                          THEN {<<target, source, "inverse_" \o type>>} ELSE {})
            /\ link([objects |-> objects', db_objects |-> db_objects',
                      db_links |-> db_links', ok |-> TRUE, failed |-> FALSE,
                      writes |-> 0, lines |-> 0],
                     source, target, type, bidirectional, 0)
                 = [objects |-> objects', db_objects |-> db_objects',
                    db_links |-> db_links', ok |-> TRUE, failed |-> FALSE,
                    writes |-> 1, lines |-> 0]]_vars

\* C20 (witness): link with bidirectional false has returned on two distinct
\* indexed uids: the source holds the link and the target holds no inverse
LinkedOneWay ==
    /\ call.op = "link" /\ call.outcome = "returned"
    /\ call.args[4] = FALSE
    /\ call.args[1] # call.args[2]
    /\ call.args[1] \in DOMAIN objects /\ call.args[2] \in DOMAIN objects
    /\ <<call.args[2], call.args[3]>> \in objects[call.args[1]].links
    /\ <<call.args[1], "inverse_" \o call.args[3]>>
            \notin objects[call.args[2]].links
    /\ <<call.args[1], call.args[2], call.args[3]>> \in db_links

----------------------------------------------------------------------------
(* Properties of the ingestion helpers, checked on Spec.                   *)

\* the properties ingest_symbol gives of its own: name, file_path, symbol_type
SymbolGiven(path, name, kind) ==
    [name |-> PyStr(name), file_path |-> PyStr(path), symbol_type |-> PyStr(kind)]

\* ingest_symbol returns in this step
SymbolIngested == Called /\ call'.op = "ingest_symbol" /\ call'.outcome = "returned"

\* C21 (as amended): a returned ingest_symbol(path, name, kind, properties)
\* returns symbol:<path>:<name>; the symbol's properties in the index then hold
\* the sanitized caller properties, the sanitized name, file_path and
\* symbol_type for the keys the caller did not give, and, unchanged, every
\* other key the symbol held before the call; module:<path> is in the index,
\* created with the properties {name: path} if it was absent and left with
\* its properties and links if it was present, and its links hold
\* (symbol uid, defines).
IngestSymbolMerges ==
    [][SymbolIngested =>
        LET path == call'.args[1]
            props == call'.args[4].v
            given == SymbolGiven(path, call'.args[2], call'.args[3])
            uid == "symbol:" \o path \o ":" \o call'.args[2]
            mod == "module:" \o path
            held == IF uid \in DOMAIN objects
                    THEN objects[uid].properties.v ELSE <<>>
            got == objects'[uid].properties.v
        IN  /\ call'.ret = uid
            /\ uid \in DOMAIN objects'
            /\ DOMAIN got = DOMAIN given \cup DOMAIN props \cup DOMAIN held
            /\ \A key \in DOMAIN props : got[key] = scrub_object(props[key])
            /\ \A key \in DOMAIN given \ DOMAIN props :
                    got[key] = scrub_object(given[key])
            /\ \A key \in DOMAIN held \ (DOMAIN given \cup DOMAIN props) :
                    got[key] = held[key]
            /\ mod \in DOMAIN objects'
            /\ objects'[mod].type = "module"
            /\ <<uid, "defines">> \in objects'[mod].links
            /\ IF mod \in DOMAIN objects
               THEN /\ objects'[mod].properties = objects[mod].properties
                    /\ objects'[mod].links
                            = objects[mod].links \cup {<<uid, "defines">>}
               ELSE /\ objects'[mod].properties
                            = PyDict([name |-> scrub_object(PyStr(path))])
                    /\ objects'[mod].links = {<<uid, "defines">>}]_vars

\* C21 (witness): ingest_symbol has returned on a symbol that held a key the
\* call does not give, and on a module that held a link of an intent
SymbolReingestedKeepsKey ==
    /\ call.op = "ingest_symbol" /\ call.outcome = "returned"
    /\ call.args[4] = EmptyDict
    /\ "doc" \in DOMAIN objects[call.ret].properties.v
    /\ <<call.ret, "defines">> \in objects["module:" \o call.args[1]].links

\* C21: a returned ingest_symbol(path, name, kind, properties) returns
\* symbol:<path>:<name>; the symbol's properties are then {name, file_path,
\* symbol_type} overlaid by the sanitized caller properties; module:<path> is
\* in the index, created empty if it was absent and left with its properties
\* and links if it was present, and its links hold (symbol uid, defines).
IngestSymbolStoresGiven ==
    [][SymbolIngested =>
        LET path == call'.args[1]
            given == SymbolGiven(path, call'.args[2], call'.args[3])
            uid == "symbol:" \o path \o ":" \o call'.args[2]
            mod == "module:" \o path
        IN  /\ call'.ret = uid
            /\ uid \in DOMAIN objects'
            /\ objects'[uid].properties
                    = PyDict(scrub_object(call'.args[4]).v @@ given)
            /\ mod \in DOMAIN objects'
            /\ <<uid, "defines">> \in objects'[mod].links
            /\ IF mod \in DOMAIN objects
               THEN /\ objects'[mod].properties = objects[mod].properties
                    /\ objects[mod].links \subseteq objects'[mod].links
               ELSE /\ objects'[mod].properties = EmptyDict
                    /\ objects'[mod].links = {<<uid, "defines">>}]_vars

\* ingest_finding returns in this step
FindingIngested == Called /\ call'.op = "ingest_finding" /\ call'.outcome = "returned"

\* the findings of the index
Findings(index) == {u \in DOMAIN index : index[u].type = "finding"}

\* C22 (as amended): a returned ingest_finding returns the uid made of its
\* path, its finding type and the clock reading of the call, and leaves a
\* finding under it; it changes no other finding, in the index or in the
\* store; it merges into a finding that was there only if that finding was
\* made at the same clock reading: two calls at different clock readings
\* leave two findings.
FindingsAccumulateAcrossClock ==
    [][FindingIngested =>
        LET uid == call'.ret
        IN  /\ uid = "finding:" \o call'.args[1] \o ":" \o call'.args[2]
                        \o ":" \o ToString(now)
            /\ uid \in Findings(objects')
            /\ uid \in DOMAIN db_objects'
            /\ \A u \in Findings(objects) \ {uid} :
                  /\ objects'[u] = objects[u]
                  /\ u \in DOMAIN db_objects => db_objects'[u] = db_objects[u]
            /\ uid \in DOMAIN objects => objects[uid].created_at = now
            /\ (/\ call.op = "ingest_finding" /\ call.outcome = "returned"
                /\ objects[call.ret].created_at # now)
               => /\ call'.ret # call.ret
                  /\ Findings(objects') = Findings(objects) \cup {uid}
                  /\ uid \notin Findings(objects)]_vars

\* C22 (witness): ingest_finding has returned twice on the same arguments and
\* two findings are indexed and stored
TwoFindingsStored ==
    /\ call.op = "ingest_finding" /\ call.outcome = "returned"
    /\ before.op = "ingest_finding" /\ before.outcome = "returned"
    /\ call.args = before.args
    /\ call.ret # before.ret
    /\ {call.ret, before.ret} \subseteq Findings(objects)
    /\ {call.ret, before.ret} \subseteq DOMAIN db_objects

\* C22: any two ingest_finding calls, calls with identical arguments included,
\* return two distinct uids and leave two distinct findings: the later call
\* neither merges into the finding of the earlier one nor overwrites it.
FindingsNeverMerge ==
    [][(/\ FindingIngested
        /\ call.op = "ingest_finding" /\ call.outcome = "returned") =>
        /\ call'.ret # call.ret
        /\ {call.ret, call'.ret} \subseteq Findings(objects')
        /\ objects'[call.ret] = objects[call.ret]
        /\ db_objects'[call.ret] = db_objects[call.ret]]_vars

----------------------------------------------------------------------------
(* Properties of the Scrubbing Gate on Python values, checked on SpecGate. *)

\* a value with every string leaf scrubbed, through maps, lists and tuples,
\* the keys, the lengths and the order kept
RECURSIVE ScrubbedThroughout(_)
ScrubbedThroughout(data) ==
    CASE data.k = "str" -> PyStr(ScrubText(data.v))
      [] data.k = "dict" ->
            PyDict([key \in DOMAIN data.v |-> ScrubbedThroughout(data.v[key])])
      [] data.k = "list" ->
            PyList([i \in DOMAIN data.v |-> ScrubbedThroughout(data.v[i])])
      [] data.k = "tuple" ->
            PyTuple([i \in DOMAIN data.v |-> ScrubbedThroughout(data.v[i])])
      [] OTHER -> data

\* C23: scrub_object returns its argument with every string leaf replaced by
\* scrub_text of it, at every depth and in lists and tuples alike, every other
\* leaf, the keys, the lengths and the order being those of the argument.
ScrubObjectReachesEveryLeaf ==
    spc = "scrub_object" => out = ScrubbedThroughout(text)

----------------------------------------------------------------------------
(* Properties of get_neighborhood, checked on Spec.                        *)

\* the number of links on a shortest path from seed to uid
HopDistance(index, seed, uid) ==
    CHOOSE k \in 0..Cardinality(DOMAIN index) :
        /\ uid \in Ball(index, seed, k)
        /\ \A j \in 0..(k - 1) : uid \notin Ball(index, seed, j)

NeighborhoodComplete ==
    (call.op = "get_neighborhood" /\ call.args[1] \in DOMAIN objects) =>
        Uids(call.ret) = Ball(objects, call.args[1], call.args[2]) \cap DOMAIN objects

\* C29 (witness): a read one link deep or more has returned on a seed that
\* holds a link to a uid that is not in the index
ReadPastDanglingLink ==
    /\ call.op = "get_neighborhood"
    /\ call.args[1] \in DOMAIN objects
    /\ call.args[2] >= 1
    /\ \E l \in objects[call.args[1]].links : l[1] \notin DOMAIN objects
    /\ Len(call.ret) >= 1

----------------------------------------------------------------------------
(* Properties of the objects callers hold, checked on Spec.                *)

\* C26: upsert_object does not change what the caller passed: when it has
\* returned, the GraphObject of the caller, its property map included, is as
\* it was before the call, and a later call on the Kernel does not change the
\* GraphObject an earlier caller passed.
CallerInputUntouched ==
    [][/\ (Called /\ call'.op = "upsert_object" /\ call'.outcome = "returned") =>
            CallerObject(call'.args[1], objects, objects') = call'.args[1]
       /\ (Called /\ call.op = "upsert_object" /\ call.outcome = "returned"
                  /\ nops = 1 /\ call'.op # "restart") =>
            objects'[call.args[1].uid] = call.args[1]]_vars

\* C27: when symbol:<path>:<name> exists, a returned ingest_intent whose
\* focus_symbol is <path>:<name>, without the symbol: prefix, leaves a store
\* from which a new Kernel returns the intent in
\* get_neighborhood(symbol:<path>:<name>, 1), its content holding the
\* placeholders and none of the raw e-mail or access-key text.
BareFocusReachesIntent ==
    [][(/\ Called
        /\ call'.op = "ingest_intent" /\ call'.outcome = "returned"
        /\ "focus_symbol" \in DOMAIN call'.args[3].v
        /\ "symbol:" \o call'.args[3].v["focus_symbol"].v \in DOMAIN objects
        /\ "symbol:" \o call'.args[3].v["focus_symbol"].v \in DOMAIN db_objects) =>
        LET reloaded == Load(db_objects', db_links')
            content == reloaded[call'.ret].properties.v["content"].v
        IN  /\ \A r \in get_neighborhood(reloaded,
                            "symbol:" \o call'.args[3].v["focus_symbol"].v, 1) :
                  call'.ret \in Uids(r)
            /\ Contains(content, Placeholder("email"))
            /\ Contains(content, Placeholder("aws_key"))
            /\ \A m \in RawMatches("email", call'.args[2])
                        \cup RawMatches("aws_key", call'.args[2]) :
                  ~Contains(content, m)]_vars

\* C30: the type of an object is fixed at creation and is the same in memory
\* and on disk: no call changes the type of an index entry or of a row, the
\* row of an indexed uid holds the type the index holds, and so a Kernel
\* constructed from the store reports the type the live Kernel reports.
TypeFixedAndAgreed ==
    [][Called =>
        /\ \A uid \in DOMAIN objects \cap DOMAIN objects' :
              call'.op # "restart" => objects'[uid].type = objects[uid].type
        /\ \A uid \in DOMAIN db_objects :
              db_objects'[uid].type = db_objects[uid].type
        /\ \A uid \in DOMAIN objects' \cap DOMAIN db_objects' :
              /\ db_objects'[uid].type = objects'[uid].type
              /\ Load(db_objects', db_links')[uid].type = objects'[uid].type]_vars

----------------------------------------------------------------------------
(* Properties of the edges, checked on SpecIngest.                         *)

\* f"inverse_{link_type}"
InverseType(link_type) == "inverse_" \o link_type

\* the edge (a -> b, t) has its counterpart in edges: (b -> a, inverse_t),
\* or (b -> a, u) where t is inverse_u
Paired(edges, a, b, t) ==
    \/ <<b, a, InverseType(t)>> \in edges
    \/ \E e \in edges : e[1] = b /\ e[2] = a /\ t = InverseType(e[3])

\* the edges of the index, as triples
IndexEdges(index) ==
    UNION {{<<a, l[1], l[2]>> : l \in index[a].links} : a \in DOMAIN index}

\* C28: with ingest_symbol, ingest_intent, ingest_finding and the default
\* link as the only calls, no edge dangles and the edges are paired: both
\* ends of every edge are in the index and the edge has its inverse, in the
\* link sets of the index and in the links relation alike.
EdgesPairedAndAnchored ==
    /\ \A e \in IndexEdges(objects) :
          /\ e[2] \in DOMAIN objects
          /\ Paired(IndexEdges(objects), e[1], e[2], e[3])
    /\ \A e \in db_links :
          /\ e[1] \in DOMAIN objects /\ e[2] \in DOMAIN objects
          /\ Paired(db_links, e[1], e[2], e[3])

\* C28 (witness): link has returned on two distinct objects that ingest_*
\* calls made; the edge and its inverse are in the index and in the store
LinkedAfterIngest ==
    /\ call.op = "link" /\ call.outcome = "returned"
    /\ before.op \in IngestOps
    /\ call.args[1] # call.args[2]
    /\ call.args[1] \in DOMAIN objects /\ call.args[2] \in DOMAIN objects
    /\ <<call.args[2], "uses">> \in objects[call.args[1]].links
    /\ <<call.args[1], "inverse_uses">> \in objects[call.args[2]].links
    /\ <<call.args[1], call.args[2], "uses">> \in db_links
    /\ <<call.args[2], call.args[1], "inverse_uses">> \in db_links

----------------------------------------------------------------------------
(* Loading from a damaged store, checked on SpecLoad.                      *)

ParsableRows(rows) ==
    [uid \in {u \in DOMAIN rows : Parsable(rows[u].data)} |-> rows[uid]]

\* C18: the construction of a Kernel over a store with unparsable rows does
\* not raise: it skips those rows and loads every other object and every
\* edge whose source was loaded.
LoadSkipsUnparsable ==
    [][(Called /\ call'.op = "restart") =>
        /\ call'.outcome = "returned"
        /\ objects' = Load(ParsableRows(db_objects), db_links)]_vars

----------------------------------------------------------------------------
(* Properties of concurrent calls, checked on SpecThreads.                 *)

\* thread t is inside upsert_object or link
InWrite(t) == threads[t].pc # "idle"

\* C16: the writes of concurrent callers are serialized: no two threads are
\* inside upsert_object or link at once, and when every call has returned the
\* objects relation holds, for every uid of the index, the properties the
\* index holds.
WritesSerialized ==
    /\ \A t1, t2 \in Threads : (InWrite(t1) /\ InWrite(t2)) => t1 = t2
    /\ (\A t \in Threads : ~InWrite(t)) =>
            \A uid \in DOMAIN objects :
                /\ uid \in DOMAIN db_objects
                /\ db_objects[uid].data = json_dumps(objects[uid].properties)

\* thread t makes its get_neighborhood call in this step
Reads(t) ==
    /\ threads[t].pc = "idle"
    /\ threads'[t].calls = threads[t].calls + 1
    /\ threads'[t].call.op = "get_neighborhood"

\* C17: a get_neighborhood call made while writes are in progress sees no
\* part of a write that has not completed: every object it returns has its
\* row, every link of an object it returns has its edge row, and a link added
\* by a bidirectional link has its inverse on the other object.
ReadsSeeCompletedWrites ==
    [][\A t \in Threads : Reads(t) =>
        \A uid \in Uids(threads'[t].ret) :
            /\ uid \in DOMAIN db_objects
            /\ \A l \in objects[uid].links :
                  /\ <<uid, l[1], l[2]>> \in db_links
                  /\ (l[2] = "uses" /\ l[1] \in DOMAIN objects) =>
                        <<uid, "inverse_uses">> \in objects[l[1]].links]_vars

====
